---- MODULE Spec2Model ----
(***************************************************************************)
(* Failure-diagnosis layer of the constraint-based type checker            *)
(* (lib/Sema/CSDiagnostics.h) and the lexical helpers of                   *)
(* include/swift/Basic/StringExtras.h.                                     *)
(*                                                                         *)
(* A diagnostic instance is constructed for one failure (base constructor, *)
(* anchor resolution, the variant's own constructor body), consumed by one *)
(* diagnose() call and discarded.                                          *)
(***************************************************************************)
EXTENDS Integers, Sequences, FiniteSets, TLC

(***************************************************************************)
(* Bounds of the model.                                                    *)
(***************************************************************************)
MaxPathLen == 2

MaxOverloads == 3

MaxRestrictions == 2

\* Requirement indices range over 0..MaxRequirementIndex.
MaxRequirementIndex == 2

\* A function type has at most MaxParams parameters.
MaxParams == 3

\* Generic argument positions range over 0..(MaxMismatches - 1).
MaxMismatches == 3

\* A type nests at most MaxTypeDepth type constructors.
MaxTypeDepth == 2

\* A string walked by a word iterator has at most MaxStringSize characters,
\* and a walk takes at most MaxSteps steps.
MaxStringSize == 3

MaxSteps == 3

(***************************************************************************)
(* The expression tree the locators point into:                            *)
(*     T.make(x!.y) + .z                                                   *)
(*   1 BinaryExpr(2, 7)      2 CallExpr(fn 3, arg 4)    3 TypeExpr         *)
(*   4 UnresolvedDotExpr(5)  5 ForceValueExpr(6)        6 DeclRefExpr      *)
(*   7 UnresolvedMemberExpr                                                *)
(* and, around it, a prefix and a postfix operator application:            *)
(*     (-(T.make(x!.y) + .z))...                                           *)
(*   8 PrefixUnaryExpr(1)    9 PostfixUnaryExpr(8)                         *)
(* NoExpr is the null Expr pointer.                                        *)
(***************************************************************************)
NoExpr == 0

Exprs == 1..7

\* The operator applications around the binary expression.
OperatorExprs == {8, 9}

ExprKind(e) ==
    CASE e = 1 -> "BinaryExpr"
      [] e = 2 -> "CallExpr"
      [] e = 3 -> "TypeExpr"
      [] e = 4 -> "UnresolvedDotExpr"
      [] e = 5 -> "ForceValueExpr"
      [] e = 6 -> "DeclRefExpr"
      [] e = 7 -> "UnresolvedMemberExpr"
      [] e = 8 -> "PrefixUnaryExpr"
      [] e = 9 -> "PostfixUnaryExpr"
      [] OTHER -> "null"

\* Argument sub-expressions of an apply expression, in order.
ExprArgs(e) ==
    CASE e = 1 -> <<2, 7>>
      [] e = 2 -> <<4>>
      [] e = 8 -> <<1>>
      [] e = 9 -> <<8>>
      [] OTHER -> <<>>

\* Base of a dot access / operand of an unwrap.
ExprBase(e) ==
    CASE e = 4 -> 5
      [] e = 5 -> 6
      [] OTHER -> NoExpr

\* Callee of a call.
ExprFn(e) == IF e = 2 THEN 3 ELSE NoExpr

ParentOf(e) ==
    CASE e \in {2, 7} -> 1
      [] e \in {3, 4} -> 2
      [] e = 5 -> 4
      [] e = 6 -> 5
      [] e = 1 -> 8
      [] e = 8 -> 9
      [] OTHER -> NoExpr

RECURSIVE Contains(_, _)
\* sub is root or lies below root.
Contains(root, sub) ==
    IF sub = NoExpr \/ root = NoExpr THEN FALSE
    ELSE IF sub = root THEN TRUE
    ELSE Contains(root, ParentOf(sub))

\* The enclosing expressions a diagnostic is constructed with (E), null included.
RootExprs == {NoExpr, 1}

(***************************************************************************)
(* Locators: an anchor and a path of elements.  An element has a kind and  *)
(* two payload values (getValue(), getValue2()); a requirement element     *)
(* carries the requirement's index and its RequirementKind.                *)
(***************************************************************************)
RequirementKinds == {"Conformance", "Superclass", "SameType"}

\* RequirementKind as the unsigned value stored in a path element.
RequirementKindValue(k) ==
    CASE k = "Conformance" -> 0
      [] k = "Superclass" -> 1
      [] k = "SameType" -> 2

\* static_cast<RequirementKind>(value)
RequirementKindOf(n) ==
    CASE n = 0 -> "Conformance"
      [] n = 1 -> "Superclass"
      [] n = 2 -> "SameType"
      [] OTHER -> "Layout"

Elt(kind, v, v2) == [kind |-> kind, value |-> v, value2 |-> v2]

NarrowingElts ==
    {Elt("ApplyArgument", 0, 0), Elt("ApplyArgument", 1, 0),
     Elt("Member", 0, 0), Elt("OptionalPayload", 0, 0)}

RequirementElts ==
    {Elt(k, 0, RequirementKindValue(r)) :
        k \in {"TypeParameterRequirement", "ConditionalRequirement"},
        r \in RequirementKinds}

\* Requirement elements at every index.
IndexedRequirementElts ==
    {Elt(k, n, RequirementKindValue(r)) :
        k \in {"TypeParameterRequirement", "ConditionalRequirement"},
        n \in 0..MaxRequirementIndex,
        r \in RequirementKinds}

KeyPathElts == {Elt("KeyPathComponent", 0, 0), Elt("KeyPathDynamicMember", 0, 0)}

PathElements ==
    NarrowingElts \cup {Elt("UnresolvedMember", 0, 0)} \cup RequirementElts
        \cup KeyPathElts

SeqsUpTo(S, n) == UNION {[1..k -> S] : k \in 0..n}

NullLocator == [present |-> FALSE, anchor |-> NoExpr, path |-> <<>>]

Loc(a, p) == [present |-> TRUE, anchor |-> a, path |-> p]

isTypeParameterRequirement(elt) == elt.kind = "TypeParameterRequirement"

isConditionalRequirement(elt) == elt.kind = "ConditionalRequirement"

Last(s) == s[Len(s)]

(***************************************************************************)
(* Types, as far as ContextualFailure::resolve looks at them: nominal      *)
(* types, the unresolved type, a type variable of the solver, bound        *)
(* generic types, sugar around a type (a type alias), tuples, and the two  *)
(* specifiers, lvalue and inout, which wrap an object type.                *)
(***************************************************************************)
NominalType(name) == [kind |-> "NominalType", name |-> name]

UnresolvedType == [kind |-> "UnresolvedType"]

TypeVariableType == [kind |-> "TypeVariableType"]

GenericTypeParamType == [kind |-> "GenericTypeParamType"]

BoundGenericType(decl, arg) == [kind |-> "BoundGenericType", decl |-> decl, arg |-> arg]

TypeAliasType(underlying) == [kind |-> "TypeAliasType", underlying |-> underlying]

TupleType(elt) == [kind |-> "TupleType", elt |-> elt]

LValueType(object) == [kind |-> "LValueType", object |-> object]

InOutType(object) == [kind |-> "InOutType", object |-> object]

GenericDecls == {"Array"}

RECURSIVE TypesUpTo(_, _)
\* The types built from the leaves by at most depth constructors.
TypesUpTo(leaves, depth) ==
    IF depth = 0 THEN leaves
    ELSE LET inner == TypesUpTo(leaves, depth - 1)
         IN inner \cup {BoundGenericType(d, t) : d \in GenericDecls, t \in inner}
                  \cup {TypeAliasType(t) : t \in inner}
                  \cup {TupleType(t) : t \in inner}

\* A specifier wraps an object type and occurs only outermost.
WithSpecifiers(types) ==
    types \cup {LValueType(t) : t \in types} \cup {InOutType(t) : t \in types}

\* The raw types a failure is constructed with.
RawTypes(depth) ==
    WithSpecifiers(TypesUpTo({NominalType("Int"), UnresolvedType, TypeVariableType},
                             depth))

\* What the solver has for the type variable: nothing (it stands for
\* itself), or the type it is bound to.
NoFixedType == [kind |-> "none"]

FixedTypes ==
    {NoFixedType, LValueType(NominalType("Int"))}
        \cup TypesUpTo({NominalType("Int"), UnresolvedType}, 1)

isSpecifier(t) == t.kind \in {"LValueType", "InOutType"}

RECURSIVE simplifyType(_, _)
\* CS.simplifyType(rawType): the type variable is replaced by its fixed type.
simplifyType(t, fixed) ==
    CASE t.kind = "TypeVariableType" -> IF fixed = NoFixedType THEN t ELSE fixed
      [] t.kind = "BoundGenericType" ->
            BoundGenericType(t.decl, simplifyType(t.arg, fixed))
      [] t.kind = "TypeAliasType" -> TypeAliasType(simplifyType(t.underlying, fixed))
      [] t.kind = "TupleType" -> TupleType(simplifyType(t.elt, fixed))
      [] t.kind = "LValueType" -> LValueType(simplifyType(t.object, fixed))
      [] t.kind = "InOutType" -> InOutType(simplifyType(t.object, fixed))
      [] OTHER -> t

RECURSIVE specifierInside(_)
\* A specifier below the outermost position: no such type exists.
specifierInside(t) ==
    CASE t.kind = "BoundGenericType" -> isSpecifier(t.arg) \/ specifierInside(t.arg)
      [] t.kind = "TypeAliasType" ->
            isSpecifier(t.underlying) \/ specifierInside(t.underlying)
      [] t.kind = "TupleType" -> isSpecifier(t.elt) \/ specifierInside(t.elt)
      [] t.kind \in {"LValueType", "InOutType"} ->
            isSpecifier(t.object) \/ specifierInside(t.object)
      [] OTHER -> FALSE

RECURSIVE getDesugaredType(_)
\* The type with the sugar around it removed.
getDesugaredType(t) ==
    IF t.kind = "TypeAliasType" THEN getDesugaredType(t.underlying) ELSE t

\* type->getWithoutSpecifierType()
getWithoutSpecifierType(t) ==
    IF isSpecifier(getDesugaredType(t)) THEN getDesugaredType(t).object ELSE t

RECURSIVE hasUnresolvedType(_)
\* Whether the unresolved type occurs anywhere in the type.
hasUnresolvedType(t) ==
    CASE t.kind = "UnresolvedType" -> TRUE
      [] t.kind = "BoundGenericType" -> hasUnresolvedType(t.arg)
      [] t.kind = "TypeAliasType" -> hasUnresolvedType(t.underlying)
      [] t.kind = "TupleType" -> hasUnresolvedType(t.elt)
      [] t.kind \in {"LValueType", "InOutType"} -> hasUnresolvedType(t.object)
      [] OTHER -> FALSE

\* BGT->getDecl()->getDeclaredInterfaceType(): the declaration's type over
\* its own generic parameter.
getDeclaredInterfaceType(decl) == BoundGenericType(decl, GenericTypeParamType)

(***************************************************************************)
(* The variant catalog: every concrete class of CSDiagnostics.h.           *)
(***************************************************************************)
RequirementVariants ==
    {"MissingConformanceFailure", "SameTypeRequirementFailure",
     "SuperclassRequirementFailure"}

InvalidMemberRefInKeyPathVariants ==
    {"InvalidStaticMemberRefInKeyPath", "InvalidMemberWithMutatingGetterInKeyPath",
     "InvalidMethodRefInKeyPath"}

ContextualVariants ==
    {"ContextualFailure", "CollectionElementContextualFailure",
     "MissingContextualConformanceFailure"}

InvalidInitRefVariants ==
    {"InvalidDynamicInitOnMetatypeFailure", "InitOnProtocolMetatypeFailure",
     "ImplicitInitOnNonConstMetatypeFailure"}

Variants ==
    RequirementVariants \cup InvalidMemberRefInKeyPathVariants
        \cup ContextualVariants \cup InvalidInitRefVariants \cup
    {"GenericArgumentsMismatchFailure", "LabelingFailure",
     "NoEscapeFuncToTypeConversionFailure", "MissingForcedDowncastFailure",
     "MissingAddressOfFailure", "MissingExplicitConversionFailure",
     "MemberAccessOnOptionalBaseFailure", "MissingOptionalUnwrapFailure",
     "RValueTreatedAsLValueFailure", "TrailingClosureAmbiguityFailure",
     "AssignmentFailure", "AutoClosureForwardingFailure",
     "NonOptionalUnwrapFailure", "MissingCallFailure", "SubscriptMisuseFailure",
     "MissingMemberFailure", "AllowTypeOrInstanceMemberFailure",
     "PartialApplicationFailure", "MissingArgumentsFailure",
     "OutOfOrderArgumentFailure", "ClosureParamDestructuringFailure",
     "InaccessibleMemberFailure", "AnyObjectKeyPathRootFailure",
     "KeyPathSubscriptIndexHashableFailure", "InvalidUseOfAddressOf",
     "ExtraneousReturnFailure"}

\* The RequirementKind each requirement variant passes to its base.
VariantRequirementKind(v) ==
    CASE v = "MissingConformanceFailure" -> "Conformance"
      [] v = "SameTypeRequirementFailure" -> "SameType"
      [] v = "SuperclassRequirementFailure" -> "Superclass"

\* Variants whose constructor builds the locator itself from an expression:
\* cs.getConstraintLocator(anchor) has an empty path.
BuildsOwnLocator(v) == v \in {"TrailingClosureAmbiguityFailure", "AssignmentFailure"}

\* Variants whose constructor passes nullptr as the enclosing expression.
PassesNullExpr(v) == v \in {"RValueTreatedAsLValueFailure", "AutoClosureForwardingFailure"}

(***************************************************************************)
(* What the solver hands a constructor besides the locator: whether the    *)
(* requirement's generic signature and the affected declaration can be     *)
(* found, whether the requirement belongs to another declaration than the  *)
(* one referenced (inRef), properties of the member of a key-path failure, *)
(* and whether the protocol type of a contextual conformance failure is a  *)
(* protocol type; the function type and the number of synthesized          *)
(* arguments of a missing-arguments failure; the argument indices and the  *)
(* parameter bindings of an out-of-order failure.                          *)
(*                                                                         *)
(* A function type is its number of parameters; parameters and arguments   *)
(* are named by their positions, from 0.  Bindings[paramIdx + 1] is the    *)
(* list of the argument positions bound to the parameter.                  *)
(***************************************************************************)
DefaultArgs ==
    [sig |-> TRUE, decl |-> TRUE, inRef |-> FALSE, hasName |-> TRUE,
     isFunc |-> TRUE, proto |-> TRUE,
     funcType |-> 0, numSynthesized |-> 0,
     argIdx |-> 0, prevArgIdx |-> 0, bindings |-> <<>>,
     mismatches |-> <<>>, noted |-> {},
     lhs |-> NominalType("Int"), rhs |-> NominalType("Int"),
     fixedType |-> NoFixedType]

\* The two raw types of a contextual failure and the solver's fixed type of
\* the type variable, such that the simplified types exist.
ContextualArgs ==
    {a \in {[DefaultArgs EXCEPT !.lhs = l, !.rhs = r, !.fixedType = f] :
               l \in RawTypes(MaxTypeDepth), r \in RawTypes(1), f \in FixedTypes} :
        /\ ~specifierInside(simplifyType(a.lhs, a.fixedType))
        /\ ~specifierInside(simplifyType(a.rhs, a.fixedType))}

\* The positions at which the generic argument lists differ, in increasing
\* order, and the positions for which a note can be attached.
MismatchArgs ==
    {[DefaultArgs EXCEPT !.mismatches = m, !.noted = n] :
        m \in {q \in SeqsUpTo(0..(MaxMismatches - 1), MaxMismatches) :
                  \A j \in 1..(Len(q) - 1) : q[j] < q[j + 1]},
        n \in SUBSET (0..(MaxMismatches - 1))}

\* The explicit arguments fill the leading parameters; the solver synthesizes
\* one argument for each of the numSynthesized parameters left.
MissingArgumentsArgs ==
    UNION {{[DefaultArgs EXCEPT !.funcType = n, !.numSynthesized = k] : k \in 1..n} :
             n \in 1..MaxParams}

\* One argument per parameter, in any order.
ParamBindings(n) ==
    {b \in [1..n -> {<<arg>> : arg \in 0..(n - 1)}] :
        \A j, k \in 1..n : b[j] = b[k] => j = k}

\* The position of the parameter an argument is bound to.
ParamOf(bindings, arg) ==
    CHOOSE paramIdx \in 0..(Len(bindings) - 1) : bindings[paramIdx + 1] = <<arg>>

\* The argument at argIdx follows the one at prevArgIdx although its
\* parameter precedes that one's.
OutOfOrderArgumentArgs ==
    UNION {UNION {{[DefaultArgs EXCEPT !.argIdx = a, !.prevArgIdx = q, !.bindings = b] :
                       a \in {x \in 0..(n - 1) :
                                 x > q /\ ParamOf(b, x) < ParamOf(b, q)}} :
                    q \in 0..(n - 1), b \in ParamBindings(n)} :
             n \in 2..MaxParams}

CtorArgs(v) ==
    IF v = "MissingArgumentsFailure" THEN MissingArgumentsArgs
    ELSE IF v = "OutOfOrderArgumentFailure" THEN OutOfOrderArgumentArgs
    ELSE IF v \in RequirementVariants
    THEN {[DefaultArgs EXCEPT !.sig = s, !.decl = d, !.inRef = r] :
            s \in BOOLEAN, d \in BOOLEAN, r \in BOOLEAN}
    ELSE IF v = "InvalidMethodRefInKeyPath"
    THEN {[DefaultArgs EXCEPT !.hasName = n, !.isFunc = f] : n \in BOOLEAN, f \in BOOLEAN}
    ELSE IF v \in InvalidMemberRefInKeyPathVariants
    THEN {[DefaultArgs EXCEPT !.hasName = n] : n \in BOOLEAN}
    ELSE IF v = "MissingContextualConformanceFailure"
    THEN {[DefaultArgs EXCEPT !.proto = p] : p \in BOOLEAN}
    ELSE {DefaultArgs}

CtorLocators(v, locs) ==
    IF BuildsOwnLocator(v) THEN {l \in locs : l.path = <<>>} ELSE locs

CtorExprs(v, loc) ==
    IF PassesNullExpr(v) THEN {NoExpr}
    ELSE IF v = "AssignmentFailure" THEN {loc.anchor}
    ELSE RootExprs

(***************************************************************************)
(* State.                                                                  *)
(***************************************************************************)
VARIABLES
    build,      \* "asserts": assert() is compiled in; "release": NDEBUG
    pc,         \* where the one diagnosis attempt stands
    inst,       \* the diagnostic instance
    cur, rest,  \* anchor resolution: expression reached, path still to walk
    sink,       \* diagnostics pushed to the sink by the diagnose() call
    ret,        \* what diagnose() returned
    hooks,      \* the variant hooks diagnose() ran, with their results
    asNoteArg,  \* the asNote argument of the diagnose() call
    overloads,      \* solver: chain of resolved-overload records, oldest first
    restrictions,   \* solver: ConstraintRestrictions
    query           \* the last lookup and its result

vars ==
    <<build, pc, inst, cur, rest, sink, ret, hooks, asNoteArg,
      overloads, restrictions, query>>

diagVars == <<sink, ret, hooks, asNoteArg>>

solverVars == <<overloads, restrictions, query>>

NoInst ==
    [variant |-> "none", E |-> NoExpr, Locator |-> NullLocator,
     RawAnchor |-> NoExpr, Anchor |-> NoExpr, HasComplexLocator |-> FALSE,
     args |-> DefaultArgs, Conformance |-> FALSE, Signature |-> FALSE,
     AffectedDecl |-> FALSE, Apply |-> NoExpr,
     Fn |-> 0, NumSynthesized |-> 0,
     ArgIdx |-> 0, PrevArgIdx |-> 0, Bindings |-> <<>>,
     Mismatches |-> <<>>,
     FromType |-> NominalType("Int"), ToType |-> NominalType("Int")]

NoQuery == [op |-> "none", arg |-> 0, result |-> 0]

(***************************************************************************)
(* Anchor resolution (FailureDiagnostic::computeAnchor; its body is not in *)
(* the header and follows the design document, section 4.1).               *)
(***************************************************************************)
isApplyExpr(e) ==
    ExprKind(e) \in {"BinaryExpr", "CallExpr", "PrefixUnaryExpr", "PostfixUnaryExpr"}

\* The narrowing rule keyed by the element's kind; NoExpr when the element has
\* no rule that matches the expression reached.
narrow(e, elt) ==
    CASE elt.kind = "ApplyArgument" ->
            IF isApplyExpr(e) /\ elt.value < Len(ExprArgs(e))
            THEN ExprArgs(e)[elt.value + 1] ELSE NoExpr
      [] elt.kind = "Member" ->
            IF ExprKind(e) = "UnresolvedDotExpr" THEN ExprBase(e) ELSE NoExpr
      [] elt.kind = "OptionalPayload" ->
            IF ExprKind(e) = "ForceValueExpr" THEN ExprBase(e) ELSE NoExpr
      [] OTHER -> NoExpr

\* Mutation of the constructor: the resolved anchor is dropped, only the flag
\* of computeAnchor()'s pair is stored.
FailureDiagnostic_ctor_dropsAnchor(i, anchor, complex) ==
    [i EXCEPT !.HasComplexLocator = complex]

\* std::tie(Anchor, HasComplexLocator) = computeAnchor();
FailureDiagnostic_ctor(i, anchor, complex) ==
    [i EXCEPT !.Anchor = anchor, !.HasComplexLocator = complex]

\* Mutation of the accessor: the flag is returned negated.
hasComplexLocator_negated(i) == ~i.HasComplexLocator

hasComplexLocator(i) == i.HasComplexLocator

getAnchor(i) == i.Anchor

getRawAnchor(i) == i.RawAnchor

getLocator(i) == i.Locator

getParentExpr(i) == i.E

\* The parent of subExpr if subExpr is contained in the root expression E.
findParentExpr(i, subExpr) ==
    IF Contains(i.E, subExpr) /\ subExpr # i.E THEN ParentOf(subExpr) ELSE NoExpr

(***************************************************************************)
(* Locator shape predicates used by the key-path constructors.             *)
(***************************************************************************)
HasElt(loc, kind) == \E k \in 1..Len(loc.path) : loc.path[k].kind = kind

isKeyPathSubscriptComponent(loc) == HasElt(loc, "KeyPathComponent")

isResultOfKeyPathDynamicMemberLookup(loc) == HasElt(loc, "KeyPathDynamicMember")

isForKeyPathComponent(loc) == HasElt(loc, "KeyPathComponent")

isForKeyPathDynamicMemberLookup(loc) == HasElt(loc, "KeyPathDynamicMember")

(***************************************************************************)
(* RequirementFailure: constructor.                                        *)
(***************************************************************************)
\* Present exactly when the failure is in a conditional requirement.
getConformanceForConditionalReq(loc) ==
    loc.path # <<>> /\ isConditionalRequirement(Last(loc.path))

\* The source of the requirement, if available.
getSignature(i) == i.args.sig

getDeclRef(i) == i.args.decl

isConditional(i) == i.Conformance

\* Mutation: the RequirementKind encoded in the last element is not compared.
RequirementFailure_asserts_noKind(i, kind) ==
    /\ i.Locator.present
    /\ isConditional(i) \/ i.Signature
    /\ i.AffectedDecl
    /\ i.Locator.path # <<>>
    /\ LET last == Last(i.Locator.path)
       IN isTypeParameterRequirement(last) \/ isConditionalRequirement(last)

\* Mutation: the source of the requirement is not asserted.
RequirementFailure_asserts_noSource(i, kind) ==
    /\ i.Locator.present
    /\ i.AffectedDecl
    /\ i.Locator.path # <<>>
    /\ LET last == Last(i.Locator.path)
       IN /\ isTypeParameterRequirement(last) \/ isConditionalRequirement(last)
          /\ RequirementKindOf(last.value2) = kind

\* The conjunction of the constructor's assert()s.
RequirementFailure_asserts(i, kind) ==
    /\ i.Locator.present
    /\ isConditional(i) \/ i.Signature
    /\ i.AffectedDecl
    /\ i.Locator.path # <<>>
    /\ LET last == Last(i.Locator.path)
       IN /\ isTypeParameterRequirement(last) \/ isConditionalRequirement(last)
          /\ RequirementKindOf(last.value2) = kind

\* Mutation: the parent expression is stored whatever its kind is.
RequirementFailure_ctor_anyParent(i) ==
    LET i1 == [i EXCEPT !.Conformance = getConformanceForConditionalReq(i.Locator)]
        i2 == [i1 EXCEPT !.Signature = getSignature(i1),
                         !.AffectedDecl = getDeclRef(i1)]
        parentExpr == findParentExpr(i2, getRawAnchor(i2))
    IN IF i2.E = NoExpr \/ parentExpr = NoExpr THEN i2
       ELSE [i2 EXCEPT !.Apply = parentExpr]

\* The member initialisers and the search for the enclosing apply expression.
RequirementFailure_ctor(i) ==
    LET i1 == [i EXCEPT !.Conformance = getConformanceForConditionalReq(i.Locator)]
        i2 == [i1 EXCEPT !.Signature = getSignature(i1),
                         !.AffectedDecl = getDeclRef(i1)]
        parentExpr == findParentExpr(i2, getRawAnchor(i2))
    IN IF i2.E = NoExpr \/ parentExpr = NoExpr THEN i2
       ELSE [i2 EXCEPT !.Apply = IF isApplyExpr(parentExpr) THEN parentExpr
                                  ELSE NoExpr]

\* The assert()s of getRequirementIndex().
getRequirementIndex_asserts(i) ==
    /\ i.Locator.path # <<>>
    /\ LET requirementLoc == Last(i.Locator.path)
       IN isTypeParameterRequirement(requirementLoc)
            \/ isConditionalRequirement(requirementLoc)

\* Mutation: the element's second value is returned.
getRequirementIndex_value2(i) ==
    IF i.Locator.path = <<>> THEN 0..MaxRequirementIndex
    ELSE {Last(i.Locator.path).value2}

\* getRequirementIndex(): the set of values it can return.  path.back() of an
\* empty path reads before the array: any value is possible.
getRequirementIndex(i) ==
    IF i.Locator.path = <<>> THEN 0..MaxRequirementIndex
    ELSE {Last(i.Locator.path).value}

KeyPathSubscriptIndexHashableFailure_asserts(i) ==
    isResultOfKeyPathDynamicMemberLookup(i.Locator)
        \/ isKeyPathSubscriptComponent(i.Locator)

\* Mutation: the locator's shape is not asserted.
InvalidMemberRefInKeyPath_asserts_noLocator(i) == i.args.hasName

InvalidMemberRefInKeyPath_asserts(i) ==
    /\ i.args.hasName
    /\ isForKeyPathComponent(i.Locator) \/ isForKeyPathDynamicMemberLookup(i.Locator)

InvalidMethodRefInKeyPath_asserts(i) == i.args.isFunc

MissingContextualConformanceFailure_asserts(i) == i.args.proto

\* Fn(funcType), NumSynthesized(numSynthesized)
MissingArgumentsFailure_ctor(i) ==
    [i EXCEPT !.Fn = i.args.funcType, !.NumSynthesized = i.args.numSynthesized]

\* ArgIdx(argIdx), PrevArgIdx(prevArgIdx), Bindings(bindings.begin(), bindings.end())
OutOfOrderArgumentFailure_ctor(i) ==
    [i EXCEPT !.ArgIdx = i.args.argIdx, !.PrevArgIdx = i.args.prevArgIdx,
              !.Bindings = i.args.bindings]

\* resolveType(rawType): the solver's simplification, sugar not reconstituted.
resolveType(i, rawType) == simplifyType(rawType, i.args.fixedType)

\* Mutation: dyn_cast instead of getAs: sugar hides the bound generic type.
resolve_noDesugar(i, rawType) ==
    LET type == getWithoutSpecifierType(resolveType(i, rawType))
    IN IF type.kind = "BoundGenericType" /\ hasUnresolvedType(type)
       THEN getDeclaredInterfaceType(type.decl)
       ELSE type

\* ContextualFailure::resolve(rawType)
resolve(i, rawType) ==
    LET type == getWithoutSpecifierType(resolveType(i, rawType))
        BGT == getDesugaredType(type)
    IN IF BGT.kind = "BoundGenericType" /\ hasUnresolvedType(BGT)
       THEN getDeclaredInterfaceType(BGT.decl)
       ELSE type

\* FromType(resolve(lhs)), ToType(resolve(rhs))
ContextualFailure_ctor(i) ==
    [i EXCEPT !.FromType = resolve(i, i.args.lhs), !.ToType = resolve(i, i.args.rhs)]

\* Mismatches(mismatches)
GenericArgumentsMismatchFailure_ctor(i) ==
    [i EXCEPT !.Mismatches = i.args.mismatches]

\* The variant's constructor, run after the base class constructor: the
\* instance it leaves.
VariantCtor(i) ==
    CASE i.variant \in RequirementVariants -> RequirementFailure_ctor(i)
      [] i.variant = "GenericArgumentsMismatchFailure" ->
            GenericArgumentsMismatchFailure_ctor(i)
      [] i.variant \in ContextualVariants -> ContextualFailure_ctor(i)
      [] i.variant = "MissingArgumentsFailure" -> MissingArgumentsFailure_ctor(i)
      [] i.variant = "OutOfOrderArgumentFailure" -> OutOfOrderArgumentFailure_ctor(i)
      [] OTHER -> i

\* Whether every assert() of the variant's constructors holds of the instance.
VariantAsserts(i) ==
    CASE i.variant \in RequirementVariants ->
            RequirementFailure_asserts(i, VariantRequirementKind(i.variant))
      [] i.variant = "KeyPathSubscriptIndexHashableFailure" ->
            KeyPathSubscriptIndexHashableFailure_asserts(i)
      [] i.variant = "InvalidMethodRefInKeyPath" ->
            InvalidMemberRefInKeyPath_asserts(i) /\ InvalidMethodRefInKeyPath_asserts(i)
      [] i.variant \in InvalidMemberRefInKeyPathVariants ->
            InvalidMemberRefInKeyPath_asserts(i)
      [] i.variant = "MissingContextualConformanceFailure" ->
            MissingContextualConformanceFailure_asserts(i)
      [] OTHER -> TRUE

(***************************************************************************)
(* Construction.                                                           *)
(***************************************************************************)
\* The base constructor's member initialisers: E, Locator, RawAnchor; anchor
\* resolution starts at the raw anchor.
BeginConstruct(v, loc, e, a) ==
    /\ pc = "idle"
    /\ inst' = [NoInst EXCEPT !.variant = v, !.E = e, !.Locator = loc,
                              !.RawAnchor = loc.anchor, !.args = a]
    /\ cur' = loc.anchor
    /\ rest' = loc.path
    /\ pc' = "resolving"
    /\ sink' = <<>>
    /\ ret' = FALSE
    /\ hooks' = <<>>
    /\ asNoteArg' = FALSE
    /\ UNCHANGED <<build, solverVars>>

\* A null locator: locator->getAnchor() in the base constructor's initialiser
\* list dereferences it before any assert() runs; the process traps.
ConstructNullLocator(v) ==
    /\ pc = "idle"
    /\ ~BuildsOwnLocator(v)
    /\ inst' = [NoInst EXCEPT !.variant = v]
    /\ pc' = "crashed"
    /\ cur' = NoExpr
    /\ rest' = <<>>
    /\ sink' = <<>>
    /\ ret' = FALSE
    /\ hooks' = <<>>
    /\ asNoteArg' = FALSE
    /\ UNCHANGED <<build, solverVars>>

\* One path element has a rule: narrow and go on.
ResolveNarrow ==
    /\ pc = "resolving"
    /\ rest # <<>>
    /\ narrow(cur, Head(rest)) # NoExpr
    /\ cur' = narrow(cur, Head(rest))
    /\ rest' = Tail(rest)
    /\ UNCHANGED <<build, pc, inst, diagVars, solverVars>>

\* Resolution is over: the path is consumed, or its next element has no rule.
\* The base constructor stores the pair and the variant's constructor runs; a
\* failed assert() aborts when assertions are compiled in.
ResolveFinish ==
    /\ pc = "resolving"
    /\ IF rest = <<>> THEN TRUE ELSE narrow(cur, Head(rest)) = NoExpr
    /\ LET i == VariantCtor(FailureDiagnostic_ctor(inst, cur, rest # <<>>))
       IN /\ inst' = i
          /\ pc' = IF build = "asserts" /\ ~VariantAsserts(i)
                   THEN "aborted" ELSE "ready"
    /\ UNCHANGED <<build, cur, rest, diagVars, solverVars>>

\* The instance is single-use: it is destroyed after the call (or without
\* one); after a failed construction there is none.
Discard ==
    /\ pc \in {"ready", "done", "aborted", "crashed"}
    /\ pc' = "idle"
    /\ inst' = NoInst
    /\ cur' = NoExpr
    /\ rest' = <<>>
    /\ sink' = <<>>
    /\ ret' = FALSE
    /\ hooks' = <<>>
    /\ asNoteArg' = FALSE
    /\ UNCHANGED <<build, solverVars>>

(***************************************************************************)
(* The diagnostic sink and the variant hooks.  A hook's outcome is what it *)
(* pushed to the sink and what it returned; a hook whose body is not in    *)
(* the header has the set of outcomes its contract allows.                 *)
(***************************************************************************)
Diagnostic(sev, id) == [severity |-> sev, id |-> id]

Outcome(emitted, result) == [emitted |-> emitted, result |-> result]

CountSeverity(s, sev) == Cardinality({k \in 1..Len(s) : s[k].severity = sev})

NumErrors(s) == CountSeverity(s, "error")

NumNotes(s) == CountSeverity(s, "note")

\* One error, optionally followed by one secondary note.
ErrorOutcomes(id) ==
    {Outcome(<<Diagnostic("error", id)>>, TRUE),
     Outcome(<<Diagnostic("error", id), Diagnostic("note", "secondary")>>, TRUE)}

\* Mutation: a binary operator application is not an operator call.
isOperator_unaryOnly(apply) == ExprKind(apply) \in {"PrefixUnaryExpr", "PostfixUnaryExpr"}

isOperator(apply) == ExprKind(apply) \in {"PrefixUnaryExpr", "PostfixUnaryExpr", "BinaryExpr"}

\* Mutation: Apply has no default initialiser, so that it is read
\* uninitialised when the constructor returned early on a null expression.
canDiagnoseFailure_uninitApply(i) ==
    IF i.Conformance THEN {TRUE}
    ELSE IF i.E = NoExpr THEN {TRUE, FALSE}
    ELSE LET anchor == i.Anchor
             path == i.Locator.path
             deferred == i.Apply # NoExpr
                            /\ (isOperator(i.Apply) \/ ExprKind(anchor) = "TypeExpr")
         IN IF ExprKind(anchor) = "UnresolvedMemberExpr"
            THEN IF path = <<>> THEN {FALSE, ~deferred}
                 ELSE IF Head(path).kind # "UnresolvedMember" THEN {FALSE}
                 ELSE {~deferred}
            ELSE {~deferred}

\* Mutation: a conditional requirement failure gets no shortcut.
canDiagnoseFailure_noShortcut(i) ==
    LET anchor == i.Anchor
        path == i.Locator.path
        deferred == i.Apply # NoExpr
                       /\ (isOperator(i.Apply) \/ ExprKind(anchor) = "TypeExpr")
    IN IF ExprKind(anchor) = "UnresolvedMemberExpr"
       THEN IF path = <<>> THEN {FALSE, ~deferred}
            ELSE IF Head(path).kind # "UnresolvedMember" THEN {FALSE}
            ELSE {~deferred}
       ELSE {~deferred}

\* Mutation: the first path element is not looked at.
canDiagnoseFailure_anyFirst(i) ==
    IF i.Conformance THEN {TRUE}
    ELSE {~(i.Apply # NoExpr
              /\ (isOperator(i.Apply) \/ ExprKind(i.Anchor) = "TypeExpr"))}

\* Mutation: only operator calls defer, a type reference in a call does not.
canDiagnoseFailure_operatorsOnly(i) ==
    IF i.Conformance THEN {TRUE}
    ELSE LET anchor == i.Anchor
             path == i.Locator.path
             deferred == i.Apply # NoExpr /\ isOperator(i.Apply)
         IN IF ExprKind(anchor) = "UnresolvedMemberExpr"
            THEN IF path = <<>> THEN {FALSE, ~deferred}
                 ELSE IF Head(path).kind # "UnresolvedMember" THEN {FALSE}
                 ELSE {~deferred}
            ELSE {~deferred}

\* canDiagnoseFailure(): the set of results it can return.  path.front() of an
\* empty path reads past the array: either result is possible.
canDiagnoseFailure(i) ==
    IF isConditional(i) THEN {TRUE}
    ELSE LET anchor == getAnchor(i)
             path == getLocator(i).path
             deferred == i.Apply # NoExpr
                            /\ (isOperator(i.Apply) \/ ExprKind(anchor) = "TypeExpr")
         IN IF ExprKind(anchor) = "UnresolvedMemberExpr"
            THEN IF path = <<>> THEN {FALSE, ~deferred}
                 ELSE IF Head(path).kind # "UnresolvedMember" THEN {FALSE}
                 ELSE {~deferred}
            ELSE {~deferred}

\* Mutation: the "in reference to" templates are handed out.
getDiagnosticOnDecl_inReference(v) ==
    CASE v = "MissingConformanceFailure" -> "type_does_not_conform_in_decl_ref"
      [] v = "SameTypeRequirementFailure" -> "types_not_equal_in_decl_ref"
      [] v = "SuperclassRequirementFailure" -> "types_not_inherited_in_decl_ref"

getDiagnosticOnDecl(v) ==
    CASE v = "MissingConformanceFailure" -> "type_does_not_conform_decl_owner"
      [] v = "SameTypeRequirementFailure" -> "types_not_equal_decl"
      [] v = "SuperclassRequirementFailure" -> "types_not_inherited_decl"

getDiagnosticInRereference(v) ==
    CASE v = "MissingConformanceFailure" -> "type_does_not_conform_in_decl_ref"
      [] v = "SameTypeRequirementFailure" -> "types_not_equal_in_decl_ref"
      [] v = "SuperclassRequirementFailure" -> "types_not_inherited_in_decl_ref"

getDiagnosticAsNote(v) ==
    CASE v = "MissingConformanceFailure" -> "candidate_types_conformance_requirement"
      [] v = "SameTypeRequirementFailure" -> "candidate_types_equal_requirement"
      [] v = "SuperclassRequirementFailure" -> "candidate_types_inheritance_requirement"

\* Suppressed by canDiagnoseFailure(), or one error from one of the two error
\* templates.
RequirementFailure_diagnoseAsError(i) ==
    UNION {IF can
           THEN ErrorOutcomes(IF i.args.inRef
                              THEN getDiagnosticInRereference(i.variant)
                              ELSE getDiagnosticOnDecl(i.variant))
           ELSE {Outcome(<<>>, FALSE)} : can \in canDiagnoseFailure(i)}

\* The compact form.
RequirementFailure_diagnoseAsNote(i) ==
    {Outcome(<<Diagnostic("note", getDiagnosticAsNote(i.variant))>>, TRUE)}

\* Mutation: the error hook renders an error.
TrailingClosureAmbiguityFailure_diagnoseAsError_emits(i) ==
    {Outcome(<<Diagnostic("error", i.variant)>>, TRUE)}

\* Mutation: reports success although nothing was emitted.
TrailingClosureAmbiguityFailure_diagnoseAsError_true(i) == {Outcome(<<>>, TRUE)}

\* bool diagnoseAsError() override { return false; }
TrailingClosureAmbiguityFailure_diagnoseAsError(i) == {Outcome(<<>>, FALSE)}

\* Mutation: one note per overload choice.
OverrideDiagnoseAsNote_perChoice(i) ==
    {Outcome(<<>>, FALSE),
     Outcome(<<Diagnostic("note", i.variant), Diagnostic("note", i.variant)>>, TRUE)}

\* diagnoseAsNote() of TrailingClosureAmbiguityFailure and of
\* SubscriptMisuseFailure: zero or one note, and whether it was emitted.
OverrideDiagnoseAsNote(i) ==
    {Outcome(<<>>, FALSE), Outcome(<<Diagnostic("note", i.variant)>>, TRUE)}

\* diagnoseAsError() of the variants whose body is not in the header: at most
\* one error, and whether it was emitted.
VariantDiagnoseAsError(i) ==
    {Outcome(<<>>, FALSE)} \cup ErrorOutcomes(i.variant)

\* The parameters of a function type, in declaration order.
getParams(fn) == [j \in 1..fn |-> j - 1]

\* Mutation: every parameter of the function type is listed.
MissingArgumentsFailure_diagnoseAsError_all(i) ==
    {Outcome(<<>>, FALSE),
     Outcome(<<[severity |-> "error", id |-> i.variant,
                params |-> getParams(i.Fn)]>>, TRUE)}

\* MissingArgumentsFailure::diagnoseAsError(): nothing, or one error naming
\* the parameters the synthesized arguments stand for, the last
\* NumSynthesized ones, in declaration order.
MissingArgumentsFailure_diagnoseAsError(i) ==
    {Outcome(<<>>, FALSE),
     Outcome(<<[severity |-> "error", id |-> i.variant,
                params |-> SubSeq(getParams(i.Fn),
                                  i.Fn - i.NumSynthesized + 1, i.Fn)]>>, TRUE)}

\* The source range of the argument at a position of the argument list.
ArgRange(argIdx) == [start |-> 2 * argIdx, end |-> 2 * argIdx + 1]

\* Mutation: the edit covers every argument from the first position to the
\* second.
OutOfOrderArgumentFailure_diagnoseAsError_span(i) ==
    {Outcome(<<>>, FALSE),
     Outcome(<<[severity |-> "error", id |-> i.variant,
                swap |-> {i.PrevArgIdx, i.ArgIdx},
                edit |-> {ArgRange(j) : j \in i.PrevArgIdx..i.ArgIdx}]>>, TRUE)}

\* OutOfOrderArgumentFailure::diagnoseAsError(): nothing, or one error that
\* names the two argument positions and carries an edit over their two
\* ranges.
OutOfOrderArgumentFailure_diagnoseAsError(i) ==
    {Outcome(<<>>, FALSE),
     Outcome(<<[severity |-> "error", id |-> i.variant,
                swap |-> {i.PrevArgIdx, i.ArgIdx},
                edit |-> {ArgRange(i.PrevArgIdx), ArgRange(i.ArgIdx)}]>>, TRUE)}

\* Mutation: the default emits a note.
FailureDiagnostic_diagnoseAsNote_emits(i) ==
    {Outcome(<<Diagnostic("note", i.variant)>>, TRUE)}

\* FailureDiagnostic::diagnoseAsNote(), the default.
FailureDiagnostic_diagnoseAsNote(i) == {Outcome(<<>>, FALSE)}

\* The classes that declare an override of diagnoseAsNote().
OverridesDiagnoseAsNote(v) ==
    v \in RequirementVariants
        \cup {"TrailingClosureAmbiguityFailure", "SubscriptMisuseFailure"}

\* Virtual dispatch of diagnoseAsError().
diagnoseAsError(i) ==
    CASE i.variant \in RequirementVariants -> RequirementFailure_diagnoseAsError(i)
      [] i.variant = "TrailingClosureAmbiguityFailure" ->
            TrailingClosureAmbiguityFailure_diagnoseAsError(i)
      [] i.variant = "MissingArgumentsFailure" ->
            MissingArgumentsFailure_diagnoseAsError(i)
      [] i.variant = "OutOfOrderArgumentFailure" ->
            OutOfOrderArgumentFailure_diagnoseAsError(i)
      [] OTHER -> VariantDiagnoseAsError(i)

\* Virtual dispatch of diagnoseAsNote().
diagnoseAsNote(i) ==
    IF ~OverridesDiagnoseAsNote(i.variant) THEN FailureDiagnostic_diagnoseAsNote(i)
    ELSE IF i.variant \in RequirementVariants THEN RequirementFailure_diagnoseAsNote(i)
    ELSE OverrideDiagnoseAsNote(i)

HookRun(name, o) ==
    [hooks |-> <<[name |-> name, result |-> o.result]>>,
     emitted |-> o.emitted, result |-> o.result]

\* Mutation: when no note could be produced the error hook runs as well.
diagnose_fallsBack(i, asNote) ==
    IF asNote
    THEN UNION {IF o.result THEN {HookRun("diagnoseAsNote", o)}
                ELSE {[hooks |-> <<[name |-> "diagnoseAsNote", result |-> FALSE],
                                   [name |-> "diagnoseAsError", result |-> e.result]>>,
                       emitted |-> o.emitted \o e.emitted, result |-> e.result] :
                        e \in diagnoseAsError(i)} : o \in diagnoseAsNote(i)}
    ELSE {HookRun("diagnoseAsError", o) : o \in diagnoseAsError(i)}

\* FailureDiagnostic::diagnose(asNote): the runs it can make.
diagnose(i, asNote) ==
    IF asNote
    THEN {HookRun("diagnoseAsNote", o) : o \in diagnoseAsNote(i)}
    ELSE {HookRun("diagnoseAsError", o) : o \in diagnoseAsError(i)}

\* The caller's one diagnose() call on the constructed instance.
Diagnose(asNote) ==
    /\ pc = "ready"
    /\ \E run \in diagnose(inst, asNote) :
          /\ sink' = sink \o run.emitted
          /\ ret' = run.result
          /\ hooks' = run.hooks
    /\ asNoteArg' = asNote
    /\ pc' = "done"
    /\ UNCHANGED <<build, inst, cur, rest, solverVars>>

(***************************************************************************)
(* Two diagnoses of equal failure data over equal solver state.            *)
(*                                                                         *)
(* What a hook whose body is not in the header does beyond the failure     *)
(* data is decided by the solver's state: whether it finds something to    *)
(* render, and whether a secondary note goes with the error.               *)
(***************************************************************************)
SolverStates == [renders : BOOLEAN, secondaryNote : BOOLEAN]

\* Whether the hook's result is left to the solver's state.
SolverDecides(i, asNote) ==
    IF asNote
    THEN i.variant \in {"TrailingClosureAmbiguityFailure", "SubscriptMisuseFailure"}
    ELSE i.variant \notin RequirementVariants \cup {"TrailingClosureAmbiguityFailure"}

HasSecondaryNote(run) == NumErrors(run.emitted) > 0 /\ NumNotes(run.emitted) > 0

\* The runs diagnose(asNote) can make over a given solver state.
diagnoseIn(i, asNote, solver) ==
    LET runs == diagnose(i, asNote)
    IN {run \in runs :
          /\ SolverDecides(i, asNote) => run.result = solver.renders
          /\ (\E other \in runs :
                 /\ other.result = run.result
                 /\ NumErrors(other.emitted) = NumErrors(run.emitted)
                 /\ HasSecondaryNote(other) # HasSecondaryNote(run))
                => HasSecondaryNote(run) = solver.secondaryNote}

\* Two fresh instances of one variant are constructed from the same failure
\* data (the constructors compute the instance from the data alone, so the
\* two are equal) and each is diagnosed once over the same solver state; the
\* first diagnosis goes to the sink, the second is kept in `query`.
DiagnoseTwice(asNote) ==
    /\ pc = "ready"
    /\ \E solver \in SolverStates :
          \E first \in diagnoseIn(inst, asNote, solver),
             second \in diagnoseIn(inst, asNote, solver) :
              /\ sink' = sink \o first.emitted
              /\ ret' = first.result
              /\ hooks' = first.hooks
              /\ query' = [op |-> "diagnose", arg |-> solver,
                           result |-> [emitted |-> second.emitted,
                                       result |-> second.result]]
    /\ asNoteArg' = asNote
    /\ pc' = "done"
    /\ UNCHANGED <<build, inst, cur, rest, overloads, restrictions>>

\* Both instances are destroyed.
DiscardBoth ==
    /\ pc \in {"ready", "done", "aborted", "crashed"}
    /\ pc' = "idle"
    /\ inst' = NoInst
    /\ cur' = NoExpr
    /\ rest' = <<>>
    /\ sink' = <<>>
    /\ ret' = FALSE
    /\ hooks' = <<>>
    /\ asNoteArg' = FALSE
    /\ query' = NoQuery
    /\ UNCHANGED <<build, overloads, restrictions>>

(***************************************************************************)
(* GenericArgumentsMismatchFailure::addNotesForMismatches.                 *)
(***************************************************************************)
\* addNoteForMismatch(mismatchPosition): attaches one note for the position
\* and returns true, or attaches nothing and returns false.
addNoteForMismatch(i, mismatchPosition) ==
    IF mismatchPosition \in i.args.noted
    THEN Outcome(<<[severity |-> "note", id |-> i.variant,
                    position |-> mismatchPosition]>>, TRUE)
    ELSE Outcome(<<>>, FALSE)

RECURSIVE addNotesLoop_last(_, _, _, _, _)
\* Mutation: result = addNoteForMismatch(mismatchPosition).
addNotesLoop_last(i, positions, result, calls, emitted) ==
    IF positions = <<>>
    THEN [result |-> result, hooks |-> calls, emitted |-> emitted]
    ELSE LET o == addNoteForMismatch(i, Head(positions))
         IN addNotesLoop_last(i, Tail(positions), o.result,
                Append(calls, [name |-> "addNoteForMismatch",
                               arg |-> Head(positions), result |-> o.result]),
                emitted \o o.emitted)

RECURSIVE addNotesLoop(_, _, _, _, _)
\* The loop: result = result || addNoteForMismatch(mismatchPosition); the
\* right operand is evaluated only while result is false.
addNotesLoop(i, positions, result, calls, emitted) ==
    IF positions = <<>>
    THEN [result |-> result, hooks |-> calls, emitted |-> emitted]
    ELSE IF result
    THEN addNotesLoop(i, Tail(positions), TRUE, calls, emitted)
    ELSE LET o == addNoteForMismatch(i, Head(positions))
         IN addNotesLoop(i, Tail(positions), o.result,
                Append(calls, [name |-> "addNoteForMismatch",
                               arg |-> Head(positions), result |-> o.result]),
                emitted \o o.emitted)

\* Mutation: the last call's result is the result.
addNotesForMismatches_last(i) ==
    addNotesLoop_last(i, i.Mismatches, FALSE, <<>>, <<>>)

\* bool result = false; for (int mismatchPosition : Mismatches) ...
addNotesForMismatches(i) == addNotesLoop(i, i.Mismatches, FALSE, <<>>, <<>>)

\* An addNotesForMismatches() call on the constructed failure: the calls it
\* made, the notes attached and its result.
AddNotesForMismatches ==
    /\ pc = "ready"
    /\ inst.variant = "GenericArgumentsMismatchFailure"
    /\ LET run == addNotesForMismatches(inst)
       IN /\ sink' = sink \o run.emitted
          /\ ret' = run.result
          /\ hooks' = run.hooks
    /\ asNoteArg' = FALSE
    /\ pc' = "done"
    /\ UNCHANGED <<build, inst, cur, rest, solverVars>>

\* A getRequirementIndex() call on the constructed requirement failure; a
\* failed assert() aborts when assertions are compiled in.
GetRequirementIndex ==
    /\ pc = "ready"
    /\ hooks = <<>>
    /\ inst.variant \in RequirementVariants
    /\ IF build = "asserts" /\ ~getRequirementIndex_asserts(inst)
       THEN pc' = "aborted" /\ hooks' = hooks
       ELSE /\ pc' = pc
            /\ \E r \in getRequirementIndex(inst) :
                  hooks' = <<[name |-> "getRequirementIndex", result |-> r]>>
    /\ UNCHANGED <<build, inst, cur, rest, sink, ret, asNoteArg, solverVars>>

(***************************************************************************)
(* Specifications.                                                         *)
(***************************************************************************)
Builds == {"asserts", "release"}

InitDiag ==
    /\ build \in Builds
    /\ pc = "idle"
    /\ inst = NoInst
    /\ cur = NoExpr
    /\ rest = <<>>
    /\ sink = <<>>
    /\ ret = FALSE
    /\ hooks = <<>>
    /\ asNoteArg = FALSE
    /\ overloads = <<>>
    /\ restrictions = <<>>
    /\ query = NoQuery

Construct(variants, locators) ==
    /\ pc = "idle"
    /\ \E v \in variants :
          \E loc \in CtorLocators(v, locators) :
              \E e \in CtorExprs(v, loc), a \in CtorArgs(v) :
                  BeginConstruct(v, loc, e, a)

ConstructNull(variants) ==
    /\ pc = "idle"
    /\ \E v \in variants : ConstructNullLocator(v)

\* Dispatch over the whole catalog, on locators of at most one path element.
DispatchLocators ==
    {Loc(a, p) : a \in Exprs, p \in {<<>>} \cup {<<elt>> : elt \in PathElements}}

Init == InitDiag

Next ==
    \/ Construct(Variants, DispatchLocators)
    \/ ConstructNull(Variants)
    \/ ResolveNarrow
    \/ ResolveFinish
    \/ \E asNote \in BOOLEAN : Diagnose(asNote)
    \/ Discard

Spec == Init /\ [][Next]_vars

\* Anchor resolution: the base class constructor over every locator.
AnchorVariants == {"LabelingFailure"}

AnchorLocators == {Loc(a, p) : a \in Exprs, p \in SeqsUpTo(PathElements, MaxPathLen)}

NextAnchor ==
    \/ Construct(AnchorVariants, AnchorLocators)
    \/ ResolveNarrow
    \/ ResolveFinish
    \/ Discard

SpecAnchor == InitDiag /\ [][NextAnchor]_vars

\* A started constructor runs to its end.
SpecAnchorFair ==
    SpecAnchor /\ WF_vars(ResolveNarrow) /\ WF_vars(ResolveFinish)

\* The requirement-failure family over every locator.
RequirementPathElements == PathElements \ KeyPathElts

RequirementLocators ==
    {Loc(a, p) : a \in Exprs, p \in SeqsUpTo(RequirementPathElements, MaxPathLen)}

NextReq ==
    \/ Construct(RequirementVariants, RequirementLocators)
    \/ ConstructNull(RequirementVariants)
    \/ ResolveNarrow
    \/ ResolveFinish
    \/ \E asNote \in BOOLEAN : Diagnose(asNote)
    \/ Discard

SpecReq == InitDiag /\ [][NextReq]_vars

\* The requirement-failure family under operator applications: the enclosing
\* expression is null, the binary expression or the postfix application.
OperandRootExprs == {NoExpr, 1, 9}

OperandPathElements ==
    {Elt("ApplyArgument", 0, 0), Elt("ApplyArgument", 1, 0),
     Elt("UnresolvedMember", 0, 0)} \cup RequirementElts

OperandLocators ==
    {Loc(a, p) : a \in Exprs \cup OperatorExprs,
                 p \in SeqsUpTo(OperandPathElements, MaxPathLen)}

ConstructOperand ==
    /\ pc = "idle"
    /\ \E v \in RequirementVariants, loc \in OperandLocators :
          \E e \in OperandRootExprs, a \in CtorArgs(v) :
              BeginConstruct(v, loc, e, a)

NextOperand ==
    \/ ConstructOperand
    \/ ResolveNarrow
    \/ ResolveFinish
    \/ \E asNote \in BOOLEAN : Diagnose(asNote)
    \/ Discard

SpecOperand == InitDiag /\ [][NextOperand]_vars

\* The requirement-failure family over requirement elements of every index.
IndexPathElements == {Elt("ApplyArgument", 0, 0)} \cup IndexedRequirementElts

IndexLocators ==
    {Loc(a, p) : a \in {1, 2}, p \in SeqsUpTo(IndexPathElements, MaxPathLen)}

ConstructIndexed ==
    /\ pc = "idle"
    /\ \E v \in RequirementVariants, loc \in IndexLocators, e \in RootExprs :
          BeginConstruct(v, loc, e, DefaultArgs)

NextIndex ==
    \/ ConstructIndexed
    \/ ResolveNarrow
    \/ ResolveFinish
    \/ GetRequirementIndex
    \/ Discard

SpecIndex == InitDiag /\ [][NextIndex]_vars

\* Pairs of diagnoses over the whole catalog.
NextTwice ==
    \/ Construct(Variants, DispatchLocators)
    \/ ResolveNarrow
    \/ ResolveFinish
    \/ \E asNote \in BOOLEAN : DiagnoseTwice(asNote)
    \/ DiscardBoth

SpecTwice == InitDiag /\ [][NextTwice]_vars

\* Generic argument mismatches over every list of positions.
ConstructMismatch ==
    /\ pc = "idle"
    /\ \E loc \in DispatchLocators, e \in RootExprs, a \in MismatchArgs :
          BeginConstruct("GenericArgumentsMismatchFailure", loc, e, a)

NextMismatch ==
    \/ ConstructMismatch
    \/ ResolveNarrow
    \/ ResolveFinish
    \/ AddNotesForMismatches
    \/ Discard

SpecMismatch == InitDiag /\ [][NextMismatch]_vars

\* Contextual failures over every pair of raw types.
ContextualLocators == {Loc(1, <<>>), Loc(1, <<Elt("ApplyArgument", 0, 0)>>)}

ConstructContextual ==
    /\ pc = "idle"
    /\ \E loc \in ContextualLocators, a \in ContextualArgs :
          BeginConstruct("ContextualFailure", loc, 1, a)

NextContextual ==
    \/ ConstructContextual
    \/ ResolveNarrow
    \/ ResolveFinish
    \/ Discard

SpecContextual == InitDiag /\ [][NextContextual]_vars

(***************************************************************************)
(* Lookups in the solver's state.                                          *)
(*                                                                         *)
(* A type is a canonical type under a spelling; Type::isEqual compares the *)
(* canonical types.  A resolved-overload record is named by its position   *)
(* in `overloads` (0 is the null pointer); the solver prepends, so the     *)
(* head of the chain is the last record and each Previous is the record    *)
(* before it.                                                              *)
(***************************************************************************)
Types == [canonical : {"Int", "String"}, sugar : {"plain", "alias"}]

isEqual(a, b) == a.canonical = b.canonical

\* The (type, kind) data an entry of ConstraintRestrictions can carry.
RestrictionData ==
    {<<[canonical |-> "Int", sugar |-> "plain"], "ValueToOptional">>,
     <<[canonical |-> "String", sugar |-> "plain"], "Superclass">>}

RestrictionEntries == {<<t, d[1], d[2]>> : t \in Types, d \in RestrictionData}

None == [some |-> FALSE, value |-> <<>>]

Some(v) == [some |-> TRUE, value |-> v]

RECURSIVE scanRestrictions_last(_, _)
\* Mutation: a later matching entry overrides an earlier one.
scanRestrictions_last(list, type) ==
    IF list = <<>> THEN None
    ELSE LET later == scanRestrictions_last(Tail(list), type)
         IN IF later.some THEN later
            ELSE IF isEqual(Head(list)[1], type)
                 THEN Some(<<Head(list)[2], Head(list)[3]>>) ELSE None

RECURSIVE scanRestrictions(_, _)
\* The loop of getRestrictionForType over the rest of the list.
scanRestrictions(list, type) ==
    IF list = <<>> THEN None
    ELSE IF isEqual(Head(list)[1], type)
         THEN Some(<<Head(list)[2], Head(list)[3]>>)
         ELSE scanRestrictions(Tail(list), type)

\* Mutation of the scan order.
getRestrictionForType_last(list, type) == scanRestrictions_last(list, type)

getRestrictionForType(list, type) == scanRestrictions(list, type)

\* CS.getResolvedOverloadSets(): the most recent record.
getResolvedOverloadSets(chain) == Len(chain)

RECURSIVE walkOverloads_skipsHead(_, _, _)
\* Mutation: the record the walk starts at is not compared.
walkOverloads_skipsHead(chain, resolvedOverload, locator) ==
    IF resolvedOverload = 0 THEN 0
    ELSE LET prev == chain[resolvedOverload].Previous
         IN IF prev = 0 THEN 0
            ELSE IF chain[prev].Locator = locator THEN prev
            ELSE walkOverloads_skipsHead(chain, prev, locator)

RECURSIVE walkOverloads(_, _, _)
\* The while loop of getResolvedOverload from the record resolvedOverload.
walkOverloads(chain, resolvedOverload, locator) ==
    IF resolvedOverload = 0 THEN 0
    ELSE IF chain[resolvedOverload].Locator = locator THEN resolvedOverload
    ELSE walkOverloads(chain, chain[resolvedOverload].Previous, locator)

\* Mutation of the walk.
getResolvedOverload_skipsHead(chain, locator) ==
    walkOverloads_skipsHead(chain, getResolvedOverloadSets(chain), locator)

getResolvedOverload(chain, locator) ==
    walkOverloads(chain, getResolvedOverloadSets(chain), locator)

\* The locators the overload chain is keyed by.
LookupLocators == {Loc(1, <<>>), Loc(2, <<>>), Loc(2, <<Elt("ApplyArgument", 0, 0)>>)}

\* The chain the solver built by resolving overloads for these locators in order.
ChainOf(locs) ==
    [k \in 1..Len(locs) |-> [Locator |-> locs[k], Previous |-> k - 1]]

InitLookup ==
    /\ build \in Builds
    /\ pc = "idle"
    /\ inst = NoInst
    /\ cur = NoExpr
    /\ rest = <<>>
    /\ sink = <<>>
    /\ ret = FALSE
    /\ hooks = <<>>
    /\ asNoteArg = FALSE
    /\ \E locs \in SeqsUpTo(LookupLocators, MaxOverloads) : overloads = ChainOf(locs)
    /\ restrictions \in SeqsUpTo(RestrictionEntries, MaxRestrictions)
    /\ query = NoQuery

GetResolvedOverload(locator) ==
    /\ query' = [op |-> "getResolvedOverload", arg |-> locator,
                 result |-> getResolvedOverload(overloads, locator)]
    /\ UNCHANGED <<build, pc, inst, cur, rest, diagVars, overloads, restrictions>>

GetRestrictionForType(type) ==
    /\ query' = [op |-> "getRestrictionForType", arg |-> type,
                 result |-> getRestrictionForType(restrictions, type)]
    /\ UNCHANGED <<build, pc, inst, cur, rest, diagVars, overloads, restrictions>>

NextLookup ==
    \/ \E locator \in LookupLocators : GetResolvedOverload(locator)
    \/ \E type \in Types : GetRestrictionForType(type)

SpecLookup == InitLookup /\ [][NextLookup]_vars

(***************************************************************************)
(* Properties.                                                             *)
(***************************************************************************)

\* C1: after diagnose(false), of any variant, the call has pushed at most one
\* error diagnostic to the sink, and it returned true exactly when it pushed
\* one.
C1_ErrorIffReturnedTrue ==
    (pc = "done" /\ ~asNoteArg) =>
        /\ NumErrors(sink) <= 1
        /\ ret <=> (NumErrors(sink) = 1)

\* diagnose(false) returned true: one error (and its secondary note) is in
\* the sink.
C1_Witness ==
    /\ pc = "done" /\ ~asNoteArg /\ ret
    /\ NumErrors(sink) = 1 /\ Len(sink) = 2

\* C2: diagnose(asNote) has run exactly one hook, diagnoseAsNote() if asNote
\* and diagnoseAsError() if not, and returned that hook's result.
C2_ExactlyOneHook ==
    pc = "done" =>
        /\ Len(hooks) = 1
        /\ hooks[1].name = (IF asNoteArg THEN "diagnoseAsNote" ELSE "diagnoseAsError")
        /\ ret = hooks[1].result

\* diagnose(true) on a variant with an error hook that can emit: the note hook
\* alone ran, emitted nothing and its false was returned.
C2_Witness ==
    /\ pc = "done" /\ asNoteArg /\ ~ret
    /\ inst.variant = "SubscriptMisuseFailure"
    /\ hooks = <<[name |-> "diagnoseAsNote", result |-> FALSE]>>

\* C3: after diagnose(true) the sink holds no error and at most one note, and
\* the call returned true exactly when it holds a note.
C3_NoteCall ==
    (pc = "done" /\ asNoteArg) =>
        /\ NumErrors(sink) = 0
        /\ NumNotes(sink) <= 1
        /\ ret <=> (NumNotes(sink) = 1)

\* diagnose(true) emitted its note and returned true.
C3_Witness ==
    /\ pc = "done" /\ asNoteArg /\ ret
    /\ inst.variant = "TrailingClosureAmbiguityFailure"
    /\ NumNotes(sink) = 1

\* C4: diagnose(true) on a variant that does not override diagnoseAsNote()
\* leaves the sink empty and returns false.
C4_DefaultNote ==
    (pc = "done" /\ asNoteArg /\ ~OverridesDiagnoseAsNote(inst.variant)) =>
        /\ sink = <<>>
        /\ ~ret
        /\ hooks = <<[name |-> "diagnoseAsNote", result |-> FALSE]>>

\* diagnose(true) was called on LabelingFailure, which has no override.
C4_Witness ==
    /\ pc = "done" /\ asNoteArg
    /\ inst.variant = "LabelingFailure"
    /\ sink = <<>> /\ ~ret

\* C5: the construction of an instance on a locator with a non-empty path
\* comes to its end, and the instance then holds a resolved anchor that is an
\* expression (not null) and a boolean complexity flag.
C5_ResolutionTerminates ==
    /\ []((pc = "ready" /\ inst.Locator.path # <<>>) =>
            (getAnchor(inst) \in Exprs /\ hasComplexLocator(inst) \in BOOLEAN))
    /\ ((pc = "resolving" /\ inst.Locator.path # <<>>) ~> (pc = "ready"))

\* An instance on a two-element path whose first element narrowed the anchor
\* and whose second has no rule.
C5_Witness ==
    /\ pc = "ready"
    /\ Len(inst.Locator.path) = 2
    /\ getAnchor(inst) \in Exprs
    /\ getAnchor(inst) # getRawAnchor(inst)
    /\ hasComplexLocator(inst)

RECURSIVE NarrowedBy(_, _, _)
\* The expression the first k path elements narrow e to; NoExpr if one of them
\* has no rule.
NarrowedBy(e, path, k) ==
    IF k = 0 THEN e
    ELSE LET before == NarrowedBy(e, path, k - 1)
         IN IF before = NoExpr THEN NoExpr ELSE narrow(before, path[k])

\* C6: the resolved anchor is the raw anchor narrowed by the longest prefix of
\* the path whose elements all have a rule; hasComplexLocator() is true when
\* that prefix stops before the end of the path and false when the whole path
\* was consumed.
C6_StopsAtFirstUnmatched ==
    pc = "ready" =>
        LET path == inst.Locator.path
            raw == getRawAnchor(inst)
        IN \E k \in 0..Len(path) :
              /\ NarrowedBy(raw, path, k) # NoExpr
              /\ k < Len(path) => NarrowedBy(raw, path, k + 1) = NoExpr
              /\ getAnchor(inst) = NarrowedBy(raw, path, k)
              /\ hasComplexLocator(inst) = (k < Len(path))

\* Resolution stopped at the first element: the anchor is the raw anchor and
\* the locator is complex, although the second element would have a rule.
C6_Witness ==
    /\ pc = "ready"
    /\ inst.Locator = Loc(4, <<Elt("OptionalPayload", 0, 0), Elt("Member", 0, 0)>>)
    /\ getAnchor(inst) = getRawAnchor(inst)
    /\ hasComplexLocator(inst)

\* Every path element was consumed: the locator is not complex.
C6_WitnessSimple ==
    /\ pc = "ready"
    /\ Len(inst.Locator.path) = 2
    /\ ~hasComplexLocator(inst)

\* C7: getResolvedOverload(locator) returns the most recent record of the
\* chain whose Locator is the argument, and null exactly when no record of the
\* chain has that locator.
C7_MostRecentMatch ==
    query.op = "getResolvedOverload" =>
        LET matches == {k \in 1..Len(overloads) : overloads[k].Locator = query.arg}
        IN IF matches = {} THEN query.result = 0
           ELSE /\ query.result \in matches
                /\ \A k \in matches : k <= query.result

\* The walk passed a record with another locator and returned the more recent
\* of two records that share the locator.
C7_Witness ==
    /\ query.op = "getResolvedOverload"
    /\ Len(overloads) = 3
    /\ query.result = 2
    /\ overloads[1].Locator = query.arg
    /\ overloads[3].Locator # query.arg

\* C8: getRestrictionForType(type) returns the data of the first entry of the
\* restriction list whose source type isEqual to type, and None exactly when
\* no entry's source type isEqual to type.
C8_FirstMatch ==
    query.op = "getRestrictionForType" =>
        LET matches ==
                {k \in 1..Len(restrictions) : isEqual(restrictions[k][1], query.arg)}
        IN IF matches = {} THEN query.result = None
           ELSE \E k \in matches :
                   /\ \A j \in matches : k <= j
                   /\ query.result = Some(<<restrictions[k][2], restrictions[k][3]>>)

\* Two entries match a type spelled differently from both; the first one's
\* data, which differs from the second's, was returned.
C8_Witness ==
    /\ query.op = "getRestrictionForType"
    /\ Len(restrictions) = 2
    /\ isEqual(restrictions[1][1], query.arg) /\ restrictions[1][1] # query.arg
    /\ isEqual(restrictions[2][1], query.arg)
    /\ restrictions[1][3] # restrictions[2][3]
    /\ query.result = Some(<<restrictions[1][2], restrictions[1][3]>>)

\* The locator shape a requirement failure of the instance's kind requires.
RequirementLocatorMatches(i) ==
    /\ i.Locator.present
    /\ i.Locator.path # <<>>
    /\ Last(i.Locator.path).kind \in {"TypeParameterRequirement", "ConditionalRequirement"}
    /\ RequirementKindOf(Last(i.Locator.path).value2) = VariantRequirementKind(i.variant)

Constructed == pc \in {"ready", "done"}

LocatorShapeViolated(i) ==
    CASE i.variant \in RequirementVariants -> ~RequirementLocatorMatches(i)
      [] i.variant = "KeyPathSubscriptIndexHashableFailure" ->
            ~(isResultOfKeyPathDynamicMemberLookup(i.Locator)
                \/ isKeyPathSubscriptComponent(i.Locator))
      [] i.variant \in InvalidMemberRefInKeyPathVariants ->
            ~(isForKeyPathComponent(i.Locator)
                \/ isForKeyPathDynamicMemberLookup(i.Locator))
      [] OTHER -> FALSE

ConstructedRequirement == Constructed /\ inst.variant \in RequirementVariants

\* C11 as stated: in every constructed requirement failure exactly one of
\* the two holds: the failure is conditional, or a generic signature is
\* present; never both and never neither.
C11_ExactlyOneSource ==
    ConstructedRequirement => (isConditional(inst) # inst.Signature)

\* C11, amended: in every requirement failure constructed with assertions
\* compiled in, the failure is conditional or a generic signature is present
\* (or both).
C11_SomeSourceWithAsserts ==
    (build = "asserts" /\ ConstructedRequirement) =>
        (isConditional(inst) \/ inst.Signature)

\* With assertions compiled in, a conditional requirement failure that
\* carries a generic signature as well was constructed.
C11_Witness ==
    /\ build = "asserts"
    /\ ConstructedRequirement
    /\ isConditional(inst)
    /\ inst.Signature

\* C12: canDiagnoseFailure() returns true for every conditional requirement
\* failure, whatever the anchor's kind, the locator's first path element and
\* the enclosing apply expression are.
C12_ConditionalAlwaysDiagnosable ==
    (ConstructedRequirement /\ isConditional(inst)) =>
        canDiagnoseFailure(inst) = {TRUE}

\* A conditional failure anchored at the unresolved member reference, whose
\* first path element is not an unresolved-member step, inside the binary
\* operator application: canDiagnoseFailure() returned true and the error
\* hook reported an error.
C12_Witness ==
    /\ pc = "done" /\ ~asNoteArg
    /\ inst.variant \in RequirementVariants
    /\ isConditional(inst)
    /\ ExprKind(getAnchor(inst)) = "UnresolvedMemberExpr"
    /\ Head(inst.Locator.path).kind # "UnresolvedMember"
    /\ inst.Apply # NoExpr /\ ExprKind(inst.Apply) = "BinaryExpr"
    /\ canDiagnoseFailure(inst) = {TRUE}
    /\ ret

NonConditionalRequirement == ConstructedRequirement /\ ~isConditional(inst)

\* C13: for a non-conditional requirement failure whose resolved anchor is
\* an unresolved-member reference, canDiagnoseFailure() returns false when
\* the locator's first path element is not an unresolved-member step; when
\* it is one, the result is what the operator / type-reference deferral rule
\* gives.
C13_UnresolvedMemberFirstStep ==
    (/\ NonConditionalRequirement
     /\ ExprKind(getAnchor(inst)) = "UnresolvedMemberExpr"
     /\ inst.Locator.path # <<>>) =>
        IF Head(inst.Locator.path).kind # "UnresolvedMember"
        THEN canDiagnoseFailure(inst) = {FALSE}
        ELSE canDiagnoseFailure(inst)
                = {inst.Apply = NoExpr
                     \/ ExprKind(inst.Apply) \notin
                           {"PrefixUnaryExpr", "PostfixUnaryExpr", "BinaryExpr"}}

\* A non-conditional failure anchored at the unresolved member reference
\* with no enclosing apply expression, so that the deferral rule alone would
\* let it through, whose first path element is an argument step:
\* canDiagnoseFailure() returned false and the error hook emitted nothing.
C13_Witness ==
    /\ pc = "done" /\ ~asNoteArg
    /\ inst.variant \in RequirementVariants
    /\ ~isConditional(inst)
    /\ ExprKind(getAnchor(inst)) = "UnresolvedMemberExpr"
    /\ Len(inst.Locator.path) = 2
    /\ Head(inst.Locator.path).kind = "ApplyArgument"
    /\ inst.Apply = NoExpr
    /\ canDiagnoseFailure(inst) = {FALSE}
    /\ sink = <<>> /\ ~ret

\* C14: for a non-conditional requirement failure with an enclosing apply
\* expression, canDiagnoseFailure() returns false if that expression is a
\* prefix-unary, postfix-unary or binary operator application, or if the
\* anchor is a type reference.
C14_OperatorOrTypeReferenceDeferred ==
    (/\ NonConditionalRequirement
     /\ inst.Apply # NoExpr
     /\ \/ ExprKind(inst.Apply) \in {"PrefixUnaryExpr", "PostfixUnaryExpr", "BinaryExpr"}
        \/ ExprKind(getAnchor(inst)) = "TypeExpr") =>
        canDiagnoseFailure(inst) = {FALSE}

\* A non-conditional failure anchored at the type reference that is the
\* callee of a call which is no operator application: canDiagnoseFailure()
\* returned false and the error hook emitted nothing.
C14_Witness ==
    /\ pc = "done" /\ ~asNoteArg
    /\ inst.variant \in RequirementVariants
    /\ ~isConditional(inst)
    /\ ExprKind(getAnchor(inst)) = "TypeExpr"
    /\ inst.Apply # NoExpr /\ ExprKind(inst.Apply) = "CallExpr"
    /\ canDiagnoseFailure(inst) = {FALSE}
    /\ sink = <<>> /\ ~ret

\* A non-conditional failure under the prefix operator application.
C14_WitnessPrefix ==
    /\ NonConditionalRequirement
    /\ inst.Apply # NoExpr /\ ExprKind(inst.Apply) = "PrefixUnaryExpr"
    /\ canDiagnoseFailure(inst) = {FALSE}

\* A non-conditional failure under the postfix operator application.
C14_WitnessPostfix ==
    /\ NonConditionalRequirement
    /\ inst.Apply # NoExpr /\ ExprKind(inst.Apply) = "PostfixUnaryExpr"
    /\ canDiagnoseFailure(inst) = {FALSE}

\* diagnoseAsError() ran on a same-type requirement failure whose enclosing
\* apply expression is the binary operator application.
SameTypeUnderBinaryOperator ==
    /\ pc = "done" /\ ~asNoteArg
    /\ inst.variant = "SameTypeRequirementFailure"
    /\ inst.Apply # NoExpr /\ ExprKind(inst.Apply) = "BinaryExpr"

\* C15 as stated: diagnoseAsError() of a same-type requirement failure whose
\* enclosing apply expression is a binary operator call emits nothing and
\* returns false.
C15_BinaryOperatorSuppressed ==
    SameTypeUnderBinaryOperator => (sink = <<>> /\ ~ret)

\* C15, amended: diagnoseAsError() of a non-conditional same-type
\* requirement failure whose enclosing apply expression is a binary operator
\* call emits nothing and returns false.
C15_NonConditionalBinaryOperatorSuppressed ==
    (SameTypeUnderBinaryOperator /\ ~isConditional(inst)) =>
        (sink = <<>> /\ ~ret)

\* diagnoseAsError() ran on a non-conditional same-type failure anchored at
\* the call that is the binary operator's left operand, constructed with a
\* signature and a declaration on a locator of the matching kind; nothing
\* was emitted.
C15_Witness ==
    /\ SameTypeUnderBinaryOperator
    /\ ~isConditional(inst)
    /\ RequirementLocatorMatches(inst)
    /\ inst.Signature /\ inst.AffectedDecl
    /\ ExprKind(getAnchor(inst)) = "CallExpr"
    /\ sink = <<>> /\ ~ret

\* C16: for every requirement failure built on a locator whose final path
\* element is conditional-requirement(i), isConditional() is true and
\* getRequirementIndex() returns i.
C16_ConditionalRequirementIndex ==
    (/\ ConstructedRequirement
     /\ inst.Locator.path # <<>>
     /\ isConditionalRequirement(Last(inst.Locator.path))) =>
        /\ isConditional(inst)
        /\ hooks # <<>> =>
              /\ hooks[1].name = "getRequirementIndex"
              /\ hooks[1].result = Last(inst.Locator.path).value

\* getRequirementIndex() returned 2 on a conformance failure (kind value 0)
\* whose locator ends in conditional-requirement(2) after an argument step.
C16_Witness ==
    /\ ConstructedRequirement
    /\ inst.variant = "MissingConformanceFailure"
    /\ Len(inst.Locator.path) = 2
    /\ inst.Locator.path[1].kind = "ApplyArgument"
    /\ inst.Locator.path[2] = Elt("ConditionalRequirement", 2, 0)
    /\ isConditional(inst)
    /\ hooks = <<[name |-> "getRequirementIndex", result |-> 2]>>

\* diagnoseAsError() ran on a same-type requirement failure that has no
\* enclosing apply expression and is attributed to the referenced
\* declaration itself.
SameTypeOnDeclNoApply ==
    /\ pc = "done" /\ ~asNoteArg
    /\ inst.variant = "SameTypeRequirementFailure"
    /\ inst.Apply = NoExpr
    /\ ~inst.args.inRef

\* C17: diagnoseAsError() of a same-type requirement failure with no
\* enclosing apply expression, attributed directly to the referenced
\* declaration, renders with types_not_equal_decl: whatever it emits, it
\* uses neither the "in reference to" template nor the note template, an
\* error it reports is types_not_equal_decl, and it reports one whenever
\* canDiagnoseFailure() lets the failure through.
C17_DeclarationTemplate ==
    SameTypeOnDeclNoApply =>
        /\ \A k \in 1..Len(sink) :
              sink[k].id \notin {"types_not_equal_in_decl_ref",
                                 "candidate_types_equal_requirement"}
        /\ ret => sink[1] = Diagnostic("error", "types_not_equal_decl")
        /\ canDiagnoseFailure(inst) = {TRUE} => ret

\* Such a failure, non-conditional, anchored at the root of the enclosing
\* expression on a locator of the matching kind, was rendered as one
\* types_not_equal_decl error.
C17_Witness ==
    /\ SameTypeOnDeclNoApply
    /\ inst.E # NoExpr
    /\ ~isConditional(inst)
    /\ RequirementLocatorMatches(inst)
    /\ inst.Signature /\ inst.AffectedDecl
    /\ sink = <<Diagnostic("error", "types_not_equal_decl")>>
    /\ ret

(***************************************************************************)
(* The argument-shape failures.                                            *)
(***************************************************************************)
\* diagnoseAsError() of the variant ran and reported an error.
Rendered(v) ==
    /\ pc = "done" /\ ~asNoteArg
    /\ inst.variant = v
    /\ ret

\* The parameters of the call left without an explicit argument: the
\* function type has funcType parameters and the explicit arguments fill
\* the leading funcType - numSynthesized of them.
MissingParams(a) == {j \in 0..(a.funcType - 1) : j >= a.funcType - a.numSynthesized}

\* C18: the diagnostic a MissingArgumentsFailure renders, constructed over
\* a function type of n parameters with NumSynthesized = k <= n, lists
\* exactly the k missing parameters, each once, in declaration order.
C18_ListsMissingParams ==
    Rendered("MissingArgumentsFailure") =>
        LET listed == sink[1].params
        IN /\ Len(listed) = inst.args.numSynthesized
           /\ {listed[j] : j \in 1..Len(listed)} = MissingParams(inst.args)
           /\ \A j \in 1..(Len(listed) - 1) : listed[j] < listed[j + 1]

\* Three parameters, one explicit argument, two synthesized: the second and
\* the third parameter are listed.
C18_Witness ==
    /\ Rendered("MissingArgumentsFailure")
    /\ inst.args.funcType = 3
    /\ inst.args.numSynthesized = 2
    /\ sink[1].params = <<1, 2>>

\* C19: the diagnostic an OutOfOrderArgumentFailure with ArgIdx = a and
\* PrevArgIdx = p renders names the argument positions p and a, and its
\* edit spans exactly the ranges of those two arguments.
C19_SwapsTheTwoArguments ==
    Rendered("OutOfOrderArgumentFailure") =>
        /\ sink[1].swap = {inst.args.prevArgIdx, inst.args.argIdx}
        /\ sink[1].edit = {ArgRange(inst.args.prevArgIdx), ArgRange(inst.args.argIdx)}
        /\ Cardinality(sink[1].edit) = 2

\* Two parameters bound in the opposite order, ArgIdx = 1 and
\* PrevArgIdx = 0: positions 0 and 1 are named and the edit is their ranges.
C19_Witness ==
    /\ Rendered("OutOfOrderArgumentFailure")
    /\ inst.args.bindings = <<<<1>>, <<0>>>>
    /\ inst.ArgIdx = 1 /\ inst.PrevArgIdx = 0
    /\ sink[1].swap = {0, 1}
    /\ sink[1].edit = {ArgRange(0), ArgRange(1)}

\* Three parameters, ArgIdx = 2 and PrevArgIdx = 0: the argument between
\* the two is not part of the edit.
C19_WitnessApart ==
    /\ Rendered("OutOfOrderArgumentFailure")
    /\ inst.ArgIdx = 2 /\ inst.PrevArgIdx = 0
    /\ ArgRange(1) \notin sink[1].edit

(***************************************************************************)
(* Determinism.                                                            *)
(***************************************************************************)
DiagnosedTwice == pc = "done" /\ query.op = "diagnose"

SameDiagnosis == query.result = [emitted |-> sink, result |-> ret]

C20_WitnessRendered ==
    /\ DiagnosedTwice /\ ~asNoteArg
    /\ inst.variant = "MissingMemberFailure"
    /\ SameDiagnosis
    /\ ret /\ Len(sink) = 2

(***************************************************************************)
(* Generic argument mismatches.                                            *)
(***************************************************************************)
NotesAdded == pc = "done" /\ inst.variant = "GenericArgumentsMismatchFailure"

\* C21: addNotesForMismatches() returns true if and only if a note was
\* attached for at least one position of Mismatches, and false when
\* Mismatches is empty.
C21_TrueIffNoteAttached ==
    NotesAdded =>
        /\ ret <=> \E k \in 1..Len(sink) :
                      /\ sink[k].severity = "note"
                      /\ \E j \in 1..Len(inst.Mismatches) :
                            sink[k].position = inst.Mismatches[j]
        /\ inst.Mismatches = <<>> => ~ret

\* Three mismatches; no note could be attached for the first and the last,
\* one was attached for the second, and the result is true.
C21_Witness ==
    /\ NotesAdded
    /\ inst.Mismatches = <<0, 1, 2>>
    /\ inst.args.noted = {1}
    /\ sink = <<[severity |-> "note", id |-> inst.variant, position |-> 1]>>
    /\ ret

\* C22: addNoteForMismatch is invoked once for every position of
\* Mismatches, in list order, also for the positions that follow one whose
\* note was attached.
C22_EveryPositionVisited ==
    NotesAdded =>
        /\ Len(hooks) = Len(inst.Mismatches)
        /\ \A j \in 1..Len(hooks) : hooks[j].arg = inst.Mismatches[j]

(***************************************************************************)
(* The enclosing apply expression of a requirement failure.                *)
(***************************************************************************)
\* C23: in a requirement failure Apply is non-null only if the instance
\* was constructed with an enclosing expression and the parent of the raw
\* anchor in that expression is an apply expression (Apply is that parent);
\* a non-conditional requirement failure constructed without an enclosing
\* expression has a null Apply, so that canDiagnoseFailure() returns false
\* for it only by the unresolved-member rule.
C23_ApplyOnlyUnderEnclosingExpr ==
    ConstructedRequirement =>
        /\ inst.Apply # NoExpr =>
              /\ inst.E # NoExpr
              /\ isApplyExpr(findParentExpr(inst, inst.RawAnchor))
              /\ inst.Apply = findParentExpr(inst, inst.RawAnchor)
        /\ (~isConditional(inst) /\ inst.E = NoExpr) =>
              /\ inst.Apply = NoExpr
              /\ ExprKind(getAnchor(inst)) # "UnresolvedMemberExpr" =>
                    canDiagnoseFailure(inst) = {TRUE}
              /\ (/\ inst.Locator.path # <<>>
                  /\ Head(inst.Locator.path).kind = "UnresolvedMember") =>
                    canDiagnoseFailure(inst) = {TRUE}

\* A non-conditional failure anchored at the type reference that is the
\* callee of a call, constructed without an enclosing expression: Apply is
\* null and the error hook reported an error.
C23_Witness ==
    /\ pc = "done" /\ ~asNoteArg
    /\ inst.variant \in RequirementVariants
    /\ ~isConditional(inst)
    /\ inst.E = NoExpr
    /\ ExprKind(getAnchor(inst)) = "TypeExpr"
    /\ isApplyExpr(ParentOf(inst.RawAnchor))
    /\ inst.Apply = NoExpr
    /\ canDiagnoseFailure(inst) = {TRUE}
    /\ ret

\* Constructed with the enclosing expression, the same failure has the call
\* as its Apply.
C23_WitnessApply ==
    /\ ConstructedRequirement
    /\ inst.E # NoExpr
    /\ ExprKind(inst.RawAnchor) = "TypeExpr"
    /\ inst.Apply = ParentOf(inst.RawAnchor)
    /\ ExprKind(inst.Apply) = "CallExpr"

(***************************************************************************)
(* Trailing closure ambiguity.                                             *)
(***************************************************************************)
TrailingClosureDiagnosed ==
    pc = "done" /\ inst.variant = "TrailingClosureAmbiguityFailure"

\* C24: TrailingClosureAmbiguityFailure::diagnoseAsError() returns false
\* and emits nothing, so diagnose(false) on this variant produces no
\* diagnostic and returns false; whatever the variant emits, it emits under
\* diagnose(true), and it is never an error.
C24_OnlyNotes ==
    TrailingClosureDiagnosed =>
        /\ TrailingClosureAmbiguityFailure_diagnoseAsError(inst)
              = {Outcome(<<>>, FALSE)}
        /\ ~asNoteArg => (sink = <<>> /\ ~ret)
        /\ sink # <<>> => asNoteArg
        /\ NumErrors(sink) = 0

\* diagnose(false) ran on the variant: the error hook was the one hook run,
\* nothing was emitted and false was returned.
C24_Witness ==
    /\ TrailingClosureDiagnosed
    /\ ~asNoteArg
    /\ hooks = <<[name |-> "diagnoseAsError", result |-> FALSE]>>
    /\ sink = <<>> /\ ~ret

\* diagnose(true) ran on the variant and a note was emitted.
C24_WitnessNote ==
    /\ TrailingClosureDiagnosed
    /\ asNoteArg
    /\ NumNotes(sink) = 1 /\ ret

(***************************************************************************)
(* camel_case::WordIterator (StringExtras.h).  The header has the          *)
(* operators; computeNextPosition and computePrevPosition are declared     *)
(* there and defined elsewhere, so the string is carried as its size and   *)
(* the two functions it induces: next[p], the end of the word that starts  *)
(* at p, and prev[p], the start of the word that ends at p.  Every pair of *)
(* functions that moves forward, respectively backward, is considered.     *)
(* The cached positions are 31 bits wide; positions here stay far below.   *)
(***************************************************************************)
WordStrings ==
    UNION {[size : {n}, next : {f \in [0..(n - 1) -> 1..n] : \A p \in 0..(n - 1) : f[p] > p},
            prev : {g \in [1..n -> 0..(n - 1)] : \A p \in 1..n : g[p] < p}] :
           n \in 1..MaxStringSize}

\* WordIterator(string, position)
WordIterator_ctor(string, position) ==
    [String |-> string, Position |-> position,
     NextPosition |-> 0, NextPositionValid |-> FALSE,
     PrevPosition |-> 0, PrevPositionValid |-> FALSE]

computeNextPosition(it) ==
    [it EXCEPT !.NextPosition = it.String.next[it.Position], !.NextPositionValid = TRUE]

computePrevPosition(it) ==
    [it EXCEPT !.PrevPosition = it.String.prev[it.Position], !.PrevPositionValid = TRUE]

\* operator*: String.slice(Position, NextPosition), as its two ends.
WordIterator_deref(it) ==
    LET c == IF it.NextPositionValid THEN it ELSE computeNextPosition(it)
    IN <<c.Position, c.NextPosition>>

\* operator++
WordIterator_increment(it) ==
    LET c == IF it.NextPositionValid THEN it ELSE computeNextPosition(it)
    IN [c EXCEPT !.PrevPosition = c.Position, !.PrevPositionValid = TRUE,
                 !.Position = c.NextPosition, !.NextPositionValid = FALSE]

\* operator--
WordIterator_decrement(it) ==
    LET c == IF it.PrevPositionValid THEN it ELSE computePrevPosition(it)
    IN [c EXCEPT !.NextPosition = c.Position, !.NextPositionValid = TRUE,
                 !.Position = c.PrevPosition, !.PrevPositionValid = FALSE]

\* Words::begin() and Words::end() of every string; the steps taken so far
\* are kept in hooks, each with the iterator it was applied to.
InitWords ==
    /\ build \in Builds
    /\ pc = "idle"
    /\ inst = NoInst
    /\ cur = NoExpr
    /\ rest = <<>>
    /\ sink = <<>>
    /\ ret = FALSE
    /\ hooks = <<>>
    /\ asNoteArg = FALSE
    /\ overloads = <<>>
    /\ restrictions = <<>>
    /\ \E string \in WordStrings :
        \E position \in {0, string.size} :
          query = [op |-> "WordIterator", arg |-> string,
                   result |-> WordIterator_ctor(string, position)]

Increment ==
    /\ Len(hooks) < MaxSteps
    /\ query.result.Position < query.arg.size
    /\ query' = [query EXCEPT !.result = WordIterator_increment(query.result)]
    /\ hooks' = Append(hooks, <<"++", query.result>>)
    /\ UNCHANGED <<build, pc, inst, cur, rest, sink, ret, asNoteArg, overloads,
                   restrictions>>

Decrement ==
    /\ Len(hooks) < MaxSteps
    /\ query.result.Position > 0
    /\ query' = [query EXCEPT !.result = WordIterator_decrement(query.result)]
    /\ hooks' = Append(hooks, <<"--", query.result>>)
    /\ UNCHANGED <<build, pc, inst, cur, rest, sink, ret, asNoteArg, overloads,
                   restrictions>>

NextWords ==
    \/ Increment
    \/ Decrement

SpecWords == InitWords /\ [][NextWords]_vars

\* ++ and then -- bring the iterator back to the position it had, and to
\* the word it had there, whatever the two position functions are.
IncrementThenDecrementRestores ==
    \A k \in 1..(Len(hooks) - 1) :
        (hooks[k][1] = "++" /\ hooks[k + 1][1] = "--") =>
            LET before == hooks[k][2]
                after == IF k + 2 <= Len(hooks) THEN hooks[k + 2][2] ELSE query.result
            IN /\ after.Position = before.Position
               /\ WordIterator_deref(after) = WordIterator_deref(before)

\* A cached position that is marked valid is the one that would be computed
\* from the current position.  This depends on the two position functions
\* being inverse to each other, which the header does not tell.
CachedPositionsCurrent ==
    LET it == query.result
    IN /\ it.NextPositionValid => it.NextPosition = it.String.next[it.Position]
       /\ it.PrevPositionValid => it.PrevPosition = it.String.prev[it.Position]

(***************************************************************************)
(* OmissionTypeName (StringExtras.h): a type name and, for a collection,   *)
(* the name of its element type; a StringRef compares by content.          *)
(***************************************************************************)
OmissionTypeName(name, collectionElement) ==
    [Name |-> name, CollectionElement |-> collectionElement]

empty(string) == string = ""

OmissionTypeNames ==
    {OmissionTypeName(n, e) : n \in {"", "NSArray", "NSSet"},
                              e \in {"", "NSString", "NSNumber"}}

\* Mutation: || instead of && after the comparison of the names.
operatorEq_either(lhs, rhs) ==
    lhs.Name = rhs.Name
        \/ (empty(lhs.CollectionElement) \/ empty(rhs.CollectionElement)
              \/ lhs.CollectionElement = rhs.CollectionElement)

\* Mutation: only an empty left element matches every element.
operatorEq_lhsOnly(lhs, rhs) ==
    lhs.Name = rhs.Name
        /\ (empty(lhs.CollectionElement)
              \/ lhs.CollectionElement = rhs.CollectionElement)

\* operator==(lhs, rhs)
operatorEq(lhs, rhs) ==
    lhs.Name = rhs.Name
        /\ (empty(lhs.CollectionElement) \/ empty(rhs.CollectionElement)
              \/ lhs.CollectionElement = rhs.CollectionElement)

\* operator!=(lhs, rhs)
operatorNe(lhs, rhs) == ~operatorEq(lhs, rhs)

NoComparisons == [eq |-> <<>>, ne |-> <<>>]

\* Three type names; the comparisons of each with each are made below.
InitOmission ==
    /\ build \in Builds
    /\ pc = "idle"
    /\ inst = NoInst
    /\ cur = NoExpr
    /\ rest = <<>>
    /\ sink = <<>>
    /\ ret = FALSE
    /\ hooks = <<>>
    /\ asNoteArg = FALSE
    /\ overloads = <<>>
    /\ restrictions = <<>>
    /\ \E names \in [1..3 -> OmissionTypeNames] :
          query = [op |-> "OmissionTypeName", arg |-> names, result |-> NoComparisons]

CompareEqual ==
    /\ query.op = "OmissionTypeName"
    /\ query.result.eq = <<>>
    /\ query' = [query EXCEPT !.result.eq =
                     [x \in 1..3 |-> [y \in 1..3 |->
                         operatorEq(query.arg[x], query.arg[y])]]]
    /\ UNCHANGED <<build, pc, inst, cur, rest, diagVars, overloads, restrictions>>

CompareNotEqual ==
    /\ query.op = "OmissionTypeName"
    /\ query.result.ne = <<>>
    /\ query' = [query EXCEPT !.result.ne =
                     [x \in 1..3 |-> [y \in 1..3 |->
                         operatorNe(query.arg[x], query.arg[y])]]]
    /\ UNCHANGED <<build, pc, inst, cur, rest, diagVars, overloads, restrictions>>

NextOmission ==
    \/ CompareEqual
    \/ CompareNotEqual

SpecOmission == InitOmission /\ [][NextOmission]_vars

Compared ==
    /\ query.op = "OmissionTypeName"
    /\ query.result.eq # <<>>
    /\ query.result.ne # <<>>

\* C27: two OmissionTypeNames are equal exactly when their Names are equal
\* and an element is empty or the elements are equal; equality is
\* reflexive and symmetric, and != is its negation.
C27_EqualityOfNames ==
    Compared =>
        \A x, y \in 1..3 :
            LET a == query.arg[x]
                b == query.arg[y]
                eq == query.result.eq
            IN /\ eq[x][y] <=>
                    /\ a.Name = b.Name
                    /\ \/ \E n \in {a, b} : n.CollectionElement = ""
                       \/ a.CollectionElement = b.CollectionElement
               /\ eq[x][x]
               /\ eq[x][y] = eq[y][x]
               /\ query.result.ne[x][y] = ~eq[x][y]

\* A collection of an unnamed element was found equal to the same
\* collection of strings, and unequal to another collection.
C27_Witness ==
    /\ Compared
    /\ query.arg[1] = OmissionTypeName("NSArray", "")
    /\ query.arg[2] = OmissionTypeName("NSArray", "NSString")
    /\ query.arg[3] = OmissionTypeName("NSSet", "NSString")
    /\ query.result.eq[1][2] /\ query.result.eq[2][1]
    /\ query.result.ne[2][3]

\* C28 as stated: equality of OmissionTypeNames is transitive.
C28_Transitive ==
    Compared =>
        \A x, y, z \in 1..3 :
            (query.result.eq[x][y] /\ query.result.eq[y][z]) => query.result.eq[x][z]

\* C28: equality of OmissionTypeNames is transitive through a name whose
\* CollectionElement is not empty.
C28_TransitiveThroughNamedElement ==
    Compared =>
        \A x, y, z \in 1..3 :
            (/\ query.result.eq[x][y]
             /\ query.result.eq[y][z]
             /\ query.arg[y].CollectionElement # "") => query.result.eq[x][z]

\* An array of an unnamed element, found equal to an array of strings
\* through another array of strings.
C28_Witness ==
    /\ Compared
    /\ query.arg[1] = OmissionTypeName("NSArray", "")
    /\ query.arg[2] = OmissionTypeName("NSArray", "NSString")
    /\ query.arg[3] = OmissionTypeName("NSArray", "NSString")
    /\ query.result.eq[1][2] /\ query.result.eq[2][3] /\ query.result.eq[1][3]

(***************************************************************************)
(* The types a contextual failure stores.                                  *)
(***************************************************************************)
ConstructedContextual == Constructed /\ inst.variant \in ContextualVariants

\* What resolve() stores for a raw type: the resolved type without its
\* specifier, or the declared interface type of the generic declaration if
\* that is a bound generic type in which the unresolved type occurs; never
\* a specifier, and never a bound generic type with the unresolved type in
\* it.
StoredAsResolved(i, rawType, stored) ==
    LET resolved == simplifyType(rawType, i.args.fixedType)
        object == IF resolved.kind \in {"LValueType", "InOutType"}
                  THEN resolved.object ELSE resolved
        generic == getDesugaredType(object).kind = "BoundGenericType"
    IN /\ stored = IF generic /\ hasUnresolvedType(object)
                   THEN BoundGenericType(getDesugaredType(object).decl,
                                         GenericTypeParamType)
                   ELSE object
       /\ stored.kind \notin {"LValueType", "InOutType"}
       /\ getDesugaredType(stored).kind = "BoundGenericType" =>
             ~hasUnresolvedType(stored)

\* C25: ContextualFailure stores, for each of its two types, the resolved
\* type with its specifier removed, except that a bound generic type in
\* which the unresolved type occurs is replaced by the declared interface
\* type of its declaration; FromType and ToType are never a bound generic
\* type with an unresolved argument.
C25_StoredTypes ==
    ConstructedContextual =>
        /\ StoredAsResolved(inst, inst.args.lhs, inst.FromType)
        /\ StoredAsResolved(inst, inst.args.rhs, inst.ToType)

\* From an inout type alias of Array<$T>, the type variable fixed to the
\* unresolved type, Array<T> was stored; from an lvalue Int, Int.
C25_Witness ==
    /\ ConstructedContextual
    /\ inst.args.lhs
          = InOutType(TypeAliasType(BoundGenericType("Array", TypeVariableType)))
    /\ inst.args.fixedType = UnresolvedType
    /\ inst.FromType = BoundGenericType("Array", GenericTypeParamType)
    /\ inst.args.rhs = LValueType(NominalType("Int"))
    /\ inst.ToType = NominalType("Int")

====
